---- MODULE Spec2Model ----
(***************************************************************************)
(* Incremental multi-source collection engine of Tachion:                  *)
(*   call_specific_binance (core/apis/biapi.py)                            *)
(*   call_specific_oanda   (core/oaapi.py)                                 *)
(*   call_specific_td      (core/apis/tdapi.py)                            *)
(*   call_specific_fred    (core/frapi.py)                                 *)
(*   call_specific_yf      (core/yfapi.py)                                 *)
(* One behaviour follows the runs of ONE source over its output directory. *)
(* A run walks the symbol list; per symbol it loads the persisted file,    *)
(* decides FRESH or UPDATE, pages the upstream and writes the file.        *)
(* Time is counted in bars of the source (one unit = one 30-minute candle  *)
(* or one daily observation), so "1 ms / 1 minute / 30 minutes / 1 day     *)
(* after the last bar" is the next unit.  A datetime string of the fixed   *)
(* format "%Y-%m-%d %H:%M:%S" is modelled by the number of its bar: the    *)
(* string order used by sort() and the strptime order used by the filters  *)
(* coincide on that format.                                                *)
(***************************************************************************)
EXTENDS Integers, Sequences, FiniteSets, TLC

(* ----------------------------- bounds --------------------------------- *)
\* bars 1..MaxT exist upstream at most
MaxT == 3
\* number of invocations of call_specific_* in one behaviour
MaxRuns == 3
\* num_calls argument of the paginated collectors
NumCalls == 2
\* cap on the pages of one UPDATE loop (the loop itself is `while True`)
MaxPages == 4
\* cap on the number of records of one series
MaxLen == 4
\* rate_limit argument of the collectors where the limiter is to be reached
RateLimit == 2
\* cap on the repetitions of one request of call_specific_td
MaxRetries == 2

(* ------------------------ program constants --------------------------- *)
\* page-size ceiling (limit=1000 / count=5000 / outputsize=5000), scaled
PageCeil == 3
\* first bar of the default window (end_date - 15 * 365 days)
StartDefault == 1
\* rate_limit as call_specific_binance has it by default
DefaultRateLimit == 50
\* the limiter's window (60 s; 1 s for oanda), scaled
Window == 3
\* what the limiter sleeps beyond the window (2 s; 0.1 s for oanda), scaled
SleepMargin == 1
\* an hour in bars of interval="30m"
FoldBars == 2
\* least sleep after "run out of API credits" (max(60 - elapsed, 1)), scaled
MinSleep == 1
\* retry_patience of the equities collector
RetryPatience == 3

Sources == {"binance", "oanda", "td", "fred", "yf"}
Paginated == {"binance", "oanda", "td"}
SingleCall == {"fred", "yf"}

Times == 1..MaxT
Payloads == {0}
Records == [datetime : Times, close : Payloads]

\* the upstream's own record for bar t
Hist(t) == [datetime |-> t, close |-> 0]

(* ------------------------- sequence helpers --------------------------- *)
Last(s) == s[Len(s)]

Reverse(s) == [k \in 1..Len(s) |-> s[Len(s) + 1 - k]]

RECURSIVE SeqsUpTo(_, _)
SeqsUpTo(S, n) ==
    IF n = 0 THEN {<<>>}
    ELSE LET shorter == SeqsUpTo(S, n - 1)
         IN  shorter \cup {Append(q, x) : q \in {p \in shorter : Len(p) = n - 1}, x \in S}

Datetimes(s) == {s[k].datetime : k \in 1..Len(s)}

StrictlyIncreasing(s) ==
    \A k \in 1..(Len(s) - 1) : s[k].datetime < s[k + 1].datetime

Ascending(s) ==
    \A k \in 1..(Len(s) - 1) : s[k].datetime <= s[k + 1].datetime

NoDuplicateTimestamps(s) ==
    \A j, k \in 1..Len(s) : j # k => s[j].datetime # s[k].datetime

IsPrefix(s, t) == Len(s) <= Len(t) /\ SubSeq(t, 1, Len(s)) = s

\* bars lo..hi in ascending order, as the upstream holds them
Bars(lo, hi) == IF hi < lo THEN <<>> ELSE [k \in 1..(hi - lo + 1) |-> Hist(lo + k - 1)]

Min(a, b) == IF a <= b THEN a ELSE b
Max(a, b) == IF a >= b THEN a ELSE b

(* --------------------------- persisted files -------------------------- *)
\* kind: "absent"  no file
\*       "json"    a parsable list of records (data)
\*       "badjson" invalid JSON (also a file truncated by open(.., "w"))
\*       "baddt"   a JSON list whose last record has no parsable datetime
Absent == [kind |-> "absent", data |-> <<>>]
Truncated == [kind |-> "badjson", data |-> <<>>]
BadDatetime == [kind |-> "baddt", data |-> <<>>]
Json(d) == [kind |-> "json", data |-> d]

Unparsable(f) == f.kind \in {"badjson", "baddt"}
ValidSeries(f) == f.kind = "json" /\ f.data # <<>>
\* the cursor: timestamp of the last record of a persisted series
Cursor(f) == Last(f.data).datetime

\* is_fresh = True at the top of the loop body, False once the file is found to
\* hold a series; before is the value the previous symbol left
IsFreshKept(f, before) ==
    IF ValidSeries(f) THEN FALSE ELSE IF Unparsable(f) THEN TRUE ELSE before

IsFresh(f, before) == ~ValidSeries(f)

(* ----------------------------- file names ------------------------------ *)
\* A symbol is the sequence of its characters (a letter stands for any run of
\* letters); a file name is the sequence of the characters before ".json".
\* str.replace(old, new) with new a single character
RECURSIVE Replace(_, _, _)
Replace(symbol, old, new) ==
    IF symbol = <<>> THEN <<>>
    ELSE <<IF symbol[1] = old THEN new ELSE symbol[1]>> \o Replace(Tail(symbol), old, new)

\* str.replace(old, '')
RECURSIVE Remove(_, _)
Remove(symbol, old) ==
    IF symbol = <<>> THEN <<>>
    ELSE (IF symbol[1] = old THEN <<>> ELSE <<symbol[1]>>) \o Remove(Tail(symbol), old)

\* f"{symbol}.json"; f"{symbol.replace('=', '_').replace('^', '')}.json" for yf
FileName(source, symbol) ==
    Append(IF source = "yf" THEN Remove(Replace(symbol, "=", "_"), "^") ELSE symbol,
           ".json")

(* ------------------------------ merger --------------------------------- *)
\* list.sort(key=datetime): stable insertion by datetime
RECURSIVE InsertSorted(_, _)
InsertSorted(s, r) ==
    IF s = <<>> THEN <<r>>
    ELSE IF Last(s).datetime <= r.datetime THEN Append(s, r)
    ELSE Append(InsertSorted(SubSeq(s, 1, Len(s) - 1), r), Last(s))

RECURSIVE SortByDatetime(_)
SortByDatetime(s) ==
    IF s = <<>> THEN <<>>
    ELSE InsertSorted(SortByDatetime(SubSeq(s, 1, Len(s) - 1)), Last(s))

\* a loop that keeps the last record of every datetime
RECURSIVE UniqueLastSeen(_)
UniqueLastSeen(s) ==
    IF s = <<>> THEN <<>>
    ELSE LET back == UniqueLastSeen(Tail(s))
         IN  IF s[1].datetime \in Datetimes(back) THEN back ELSE <<s[1]>> \o back

\* the `seen` loop: keep the first record of every datetime
RECURSIVE UniqueDetails(_)
UniqueDetails(s) ==
    IF s = <<>> THEN <<>>
    ELSE LET front == UniqueDetails(SubSeq(s, 1, Len(s) - 1))
         IN  IF Last(s).datetime \in Datetimes(front) THEN front ELSE Append(front, Last(s))

\* the filter left out: every returned row is kept
KeepAll(batch, last) == batch

\* the filter with >= in place of >
RECURSIVE KeepNewerOrEqual(_, _)
KeepNewerOrEqual(batch, last) ==
    IF batch = <<>> THEN <<>>
    ELSE LET front == KeepNewerOrEqual(SubSeq(batch, 1, Len(batch) - 1), last)
         IN  IF Last(batch).datetime >= last THEN Append(front, Last(batch)) ELSE front

\* [row for row in batch if strptime(row["datetime"]) > last_dt]
RECURSIVE KeepNewer(_, _)
KeepNewer(batch, last) ==
    IF batch = <<>> THEN <<>>
    ELSE LET front == KeepNewer(SubSeq(batch, 1, Len(batch) - 1), last)
         IN  IF Last(batch).datetime > last THEN Append(front, Last(batch)) ELSE front

\* [v for v in new_values if v["datetime"] not in existing_dates]
RECURSIVE NotInExisting(_, _)
NotInExisting(new_values, existing) ==
    IF new_values = <<>> THEN <<>>
    ELSE LET front == NotInExisting(SubSeq(new_values, 1, Len(new_values) - 1), existing)
         IN  IF Last(new_values).datetime \in Datetimes(existing) THEN front
             ELSE Append(front, Last(new_values))

(* ------------------------------ upstream ------------------------------- *)
\* what one HTTP request / library call can come back with
RawErrors == {"payload_other", "payload_nodata", "payload_credits",
              "http429", "http_error", "network"}
\* fault: the answer is a failure, not what the upstream's history calls for
RawOk(p) == [err |-> "none", page |-> p, fault |-> FALSE]
RawErr(k) == [err |-> k, page |-> <<>>, fault |-> TRUE]
\* the vendor's "No data is available on the specified dates" for an empty range
NoData == [err |-> "payload_nodata", page |-> <<>>, fault |-> FALSE]

Pages == SeqsUpTo(Records, PageCeil)

\* pages in which a timestamp may come back with another payload
RevisedRecords == [datetime : 1..2, close : {0, 1}]
RevisedPages == SeqsUpTo(RevisedRecords, PageCeil)

\* an upstream that answers from its history 1..n, for the request boundary bnd
FaithfulRaw(s, fresh, bnd, n) ==
    LET hi == Min(bnd, n)
    IN  CASE s \in {"binance", "oanda"} /\ fresh ->
                 RawOk(Bars(Max(1, hi - PageCeil + 1), hi))
          [] s \in {"binance", "oanda"} /\ ~fresh ->
                 RawOk(Bars(bnd, Min(n, bnd + PageCeil - 1)))
          [] s = "td" /\ fresh ->
                 IF hi < 1 THEN NoData
                 ELSE RawOk(Reverse(Bars(Max(1, hi - PageCeil + 1), hi)))
          [] s = "td" /\ ~fresh ->
                 IF bnd > n THEN NoData
                 ELSE RawOk(Reverse(Bars(Max(bnd, n - PageCeil + 1), n)))
          [] OTHER -> RawOk(Bars(Max(bnd, 1), n))

\* an upstream whose history has no end in either direction: for every boundary
\* it can answer with a full page or with nothing
EndlessRaw(s, fresh, bnd) ==
    LET lo == IF fresh /\ s \in Paginated THEN bnd - PageCeil + 1 ELSE bnd
        full == Bars(lo, lo + PageCeil - 1)
    IN  {RawOk(IF s = "td" THEN Reverse(full) ELSE full), RawOk(<<>>)}

\* the failures a client is expected to retry: rate limiting and the network
Retryable == {"http429", "network"}

\* how an answer relates to the series found on disk
AnswerKind(raw, f) ==
    (IF raw.fault THEN {"fault"} ELSE {})
        \cup (IF raw.err \in Retryable THEN {"retryable"} ELSE {})
        \cup {CASE raw.err = "payload_nodata" -> "nodata"
                [] raw.err # "none" /\ raw.err # "payload_nodata" -> "error"
                [] raw.err = "none" /\ raw.page = <<>> -> "empty"
                [] raw.err = "none" /\ raw.page # <<>>
                     /\ Datetimes(raw.page) \subseteq Datetimes(f.data) -> "stale"
                [] OTHER -> "new"}

(* ------------------------------ adapters ------------------------------- *)
Ok(values) == [status |-> "ok", message |-> "", values |-> values]
Error(msg) == [status |-> "error", message |-> msg, values |-> <<>>]
Raise == [status |-> "raise", message |-> "", values |-> <<>>]

PayloadMessage(k) ==
    CASE k = "payload_nodata" -> "no data"
      [] k = "payload_credits" -> "run out of API credits"
      [] OTHER -> "other"

\* dt = datetime.datetime.fromtimestamp(open_time_ms / 1000); dt.strftime(...):
\* the wall clock of the host at bar t, which repeats an hour from bar f on
Strftime(t, f) == IF f # 0 /\ t >= f THEN t - FoldBars ELSE t

\* datetime.datetime.strptime(...).timestamp(): the bar of wall clock w, the
\* earlier one where the host's clock showed w twice
Timestamp(w, f) == IF f # 0 /\ w >= f THEN w + FoldBars ELSE w

\* values.append({"datetime": dt.strftime("%Y-%m-%d %H:%M:%S"), ...})
Values(page, f) == [k \in 1..Len(page) |-> [page[k] EXCEPT !.datetime = Strftime(@, f)]]

BinanceAPI(raw, f) ==
    CASE raw.err = "none" -> Ok(Values(raw.page, f))
      [] raw.err \in {"http429", "http_error"} -> Error("HTTP error")
      [] raw.err = "network" -> Error("Request error")
      [] OTHER -> Error(PayloadMessage(raw.err))

OandaAPI(raw) ==
    CASE raw.err = "none" -> Ok(raw.page)
      [] raw.err = "http429" -> Error("Rate limit exceeded")
      [] raw.err = "http_error" -> Error("HTTP error")
      [] raw.err = "network" -> Error("Request error")
      [] OTHER -> Error(PayloadMessage(raw.err))

\* requests.get and raise_for_status are not inside any try block
TwelveDataAPI(raw) ==
    CASE raw.err = "none" -> Ok(raw.page)
      [] raw.err \in {"http429", "http_error", "network"} -> Raise
      [] OTHER -> Error(PayloadMessage(raw.err))

\* an adapter that answers a failure with an observation instead of an error
FredAPIMasksError(raw) ==
    IF raw.err = "none" THEN Ok(raw.page) ELSE Ok(<<Hist(1)>>)

\* except Exception: return {"status": "error", ...}
FredAPI(raw) ==
    IF raw.err = "none" THEN Ok(raw.page) ELSE Error("FRED API error")

YFinanceAPI(raw) ==
    IF raw.err = "none" THEN Ok(raw.page) ELSE Error("YFinance API error")

(* ----------------------------- rate limiter ---------------------------- *)
\* Time is kept as the limiter reads it: elapsed is time.time() - minute_start,
\* followed up to Window ("the window is over").  ages holds, newest first, the
\* time since each of the latest rate_limit + 1 adapter calls of the run,
\* likewise up to Window.
Later(t, d) == Min(t + d, Window)

AgesLater(a, d) == [k \in 1..Len(a) |-> Later(a[k], d)]

\* an adapter call is issued now
Issue(a, limit) == SubSeq(<<0>> \o a, 1, Min(Len(a) + 1, limit + 1))

\* a check that never sleeps
SleepNever(el) == 0

\* sleep_time of the rate-limit check: 60 - elapsed + 2 if elapsed < 60
SleepTime(el) == IF el < Window THEN Window - el + SleepMargin ELSE 0

\* the check with > in place of >=
AcquireLate(calls, el, limit) ==
    IF calls + 1 > limit
    THEN [calls |-> 0, elapsed |-> 0, slept |-> SleepTime(el), reset |-> TRUE]
    ELSE [calls |-> calls + 1, elapsed |-> el, slept |-> 0, reset |-> FALSE]

\* calls_this_minute += 1; if calls_this_minute >= rate_limit: sleep and reset
Acquire(calls, el, limit) ==
    IF calls + 1 >= limit
    THEN [calls |-> 0, elapsed |-> 0, slept |-> SleepTime(el), reset |-> TRUE]
    ELSE [calls |-> calls + 1, elapsed |-> el, slept |-> 0, reset |-> FALSE]

\* the check with > in place of >=
TdAcquireLate(calls, el, limit) ==
    IF calls > limit
    THEN [calls |-> 1, elapsed |-> 0, slept |-> SleepTime(el), reset |-> TRUE]
    ELSE [calls |-> calls + 1, elapsed |-> el, slept |-> 0, reset |-> FALSE]

\* if calls_this_minute >= rate_limit: sleep and reset; calls_this_minute += 1
TdAcquire(calls, el, limit) ==
    IF calls >= limit
    THEN [calls |-> 1, elapsed |-> 0, slept |-> SleepTime(el), reset |-> TRUE]
    ELSE [calls |-> calls + 1, elapsed |-> el, slept |-> 0, reset |-> FALSE]

\* sleep_time after "run out of API credits": max(60 - elapsed, 1) + 2
CreditSleep(el) == Max(Window - el, MinSleep) + SleepMargin

(* ------------------------------- state --------------------------------- *)
VARIABLES
    src,            \* the source whose collector is run
    symbols,        \* the symbol list handed to the collector
    upstream,       \* "any": arbitrary pages; "faithful": answers from history;
                    \* "endless": a history without end; "revised": arbitrary
                    \* pages whose records differ in payload
    num_calls,      \* the num_calls argument
    rate_limit,     \* the rate_limit argument
    dir_exists,     \* the directory `path` exists
    fold,           \* the bar at which the host's clocks are set back an hour; 0: never
    credential,     \* the source's key is set in the environment
    path,           \* the directory handed to the collector
    peer,           \* the variables of a run of another source, while that run is not the one stepping
    now,            \* newest bar the upstream holds
    runs,           \* invocations started so far
    disk,           \* symbol -> persisted file
    pc,             \* position of the collector
    at,             \* position at which the process was interrupted
    i,              \* index of the current symbol
    is_fresh, existing_data, details, new_data, last_dt,
    cur,            \* boundary of the next request (curr_time / start_time / from_time / fetch_start)
    start_date,     \* start_date of call_specific_fred, shared by the symbols of a run
    ncalls,         \* adapter calls answered for the current symbol
    towrite,        \* the list handed to json.dump
    prev,           \* file of the current symbol as found by the load
    answers,        \* kinds of the answers the current symbol's requests got
    lastPage,       \* page of the latest answer
    faulty,         \* some request of the run was answered with a failure
    wrote,          \* open(file_path, "w") was executed for the current symbol
    calls_this_minute,
    elapsed,        \* time.time() - minute_start, up to Window
    ages,           \* time since the latest adapter calls of the run, newest first
    issued,         \* adapter calls of the run so far, up to rate_limit + 2
    waited,         \* time has passed in the run other than by time.sleep
    sinceReset,     \* adapter calls issued since the counter was last set to 0
    between,        \* adapter calls issued between the last two settings of minute_start
    apart,          \* time between the last two settings of minute_start, up to Window
    retries,        \* repetitions of the current request after "run out of API credits"
    retried         \* number of the latest request of the symbol that was repeated

vars == <<src, symbols, upstream, now, runs, disk, pc, at, i, is_fresh,
          existing_data, details, new_data, last_dt, cur, start_date, ncalls,
          towrite, prev, answers, lastPage, wrote, faulty, num_calls, rate_limit,
          calls_this_minute, elapsed, ages, issued, waited, sinceReset, between,
          apart, retries, retried, dir_exists, fold, credential, path, peer>>

config == <<src, symbols, upstream, num_calls, rate_limit, dir_exists, fold, credential, path>>
locals == <<is_fresh, existing_data, details, new_data, last_dt, cur, ncalls,
            towrite, prev, answers, lastPage, wrote, retries, retried>>
timing == <<calls_this_minute, elapsed, ages, issued, waited, sinceReset, between, apart>>

\* no other run
NoPeer == [src |-> "none"]

Stopped == {"idle", "returned", "raised", "crashed"}
Running == {"load", "fresh", "update", "open", "dump", "next"}

Sym == symbols[i]
SymbolSet == {symbols[k] : k \in 1..Len(symbols)}

\* os.path.join(path, name)
Join(dir, name) == <<dir>> \o name

\* file_path = os.path.join(path, f"{symbol}.json") of the current symbol
file_path == Join(path, FileName(src, Sym))
FileSet == {Join(path, FileName(src, s)) : s \in SymbolSet}

\* the failures that end the paging of a symbol
Terminal == RawErrors \ {"payload_credits"}

\* the vendor a collector asks: the equities collector calls TwelveDataAPI
Vendor(source) == IF source = "equities" THEN "td" ELSE source

\* "run out of API credits" is followed where the pages are the upstream's own
UpstreamAnswers(fresh, bnd) ==
    {RawErr(k) : k \in (IF upstream \in {"any", "revised"} THEN Terminal ELSE RawErrors)}
        \cup CASE upstream = "any" -> {RawOk(p) : p \in Pages}
               [] upstream = "revised" -> {RawOk(p) : p \in RevisedPages}
               [] upstream = "endless" -> EndlessRaw(Vendor(src), fresh, bnd)
               [] OTHER -> {FaithfulRaw(Vendor(src), fresh, bnd, now)}

\* the cap on the length of a series, where the upstream's pages are arbitrary:
\* MaxLen, or the length of the upstream's history where that is longer
Bounded(n) == upstream = "endless" \/ n <= Max(MaxLen, now)

\* calls_this_minute = 0; minute_start = time.time()
ResetTiming ==
    /\ calls_this_minute' = 0
    /\ elapsed' = 0
    /\ ages' = <<>>
    /\ issued' = 0
    /\ waited' = FALSE
    /\ sinceReset' = 0
    /\ between' = 0
    /\ apart' = Window

\* the limiter has let an adapter call through
Limited(lim) ==
    /\ calls_this_minute' = lim.calls
    /\ elapsed' = lim.elapsed
    /\ ages' = Issue(AgesLater(ages, lim.slept), rate_limit)
    /\ issued' = Min(issued + 1, rate_limit + 2)
    /\ waited' = waited
    /\ sinceReset' = IF lim.reset THEN 1 ELSE Min(sinceReset + 1, rate_limit + 1)
    /\ between' = IF lim.reset THEN sinceReset ELSE between
    /\ apart' = IF lim.reset THEN Later(elapsed, lim.slept) ELSE apart

\* ... and the call came back with "run out of API credits"
LimitedCredits(lim) ==
    /\ calls_this_minute' = 0
    /\ elapsed' = 0
    /\ ages' = AgesLater(Issue(AgesLater(ages, lim.slept), rate_limit),
                          CreditSleep(lim.elapsed))
    /\ issued' = Min(issued + 1, rate_limit + 2)
    /\ waited' = waited
    /\ sinceReset' = 0
    /\ between' = IF lim.reset THEN Max(sinceReset, 1) ELSE Min(sinceReset + 1, rate_limit + 1)
    /\ apart' = LET credit == Later(lim.elapsed, CreditSleep(lim.elapsed))
                IN  IF lim.reset THEN Min(Later(elapsed, lim.slept), credit) ELSE credit

ResetLocals ==
    /\ existing_data' = <<>>
    /\ details' = <<>>
    /\ new_data' = <<>>
    /\ last_dt' = 0
    /\ cur' = 0
    /\ ncalls' = 0
    /\ towrite' = <<>>
    /\ prev' = Absent
    /\ answers' = {}
    /\ lastPage' = <<>>
    /\ wrote' = FALSE
    /\ retries' = 0
    /\ retried' = 0

\* Two kinds of behaviour are explored: one symbol against an upstream that may
\* answer every request with any page or failure, and a list of two symbols
\* against an upstream that answers from its growing history 1..now or fails.
\* rate_limit is large enough for the limiter never to sleep.
Init ==
    /\ src \in Sources
    /\ path = "path"
    /\ peer = NoPeer
    /\ \/ symbols = << <<"A">> >> /\ upstream = "any" /\ now = MaxT
       \/ symbols = << <<"A">>, <<"B">> >> /\ upstream = "faithful" /\ now = 1
    /\ runs = 0
    /\ disk = [f \in FileSet |-> Absent]
    /\ pc = "idle"
    /\ at = "idle"
    /\ i = 1
    /\ is_fresh = TRUE
    /\ existing_data = <<>>
    /\ details = <<>>
    /\ new_data = <<>>
    /\ last_dt = 0
    /\ cur = 0
    /\ start_date = StartDefault
    /\ ncalls = 0
    /\ towrite = <<>>
    /\ prev = Absent
    /\ answers = {}
    /\ lastPage = <<>>
    /\ wrote = FALSE
    /\ faulty = FALSE
    /\ num_calls = NumCalls
    /\ rate_limit = DefaultRateLimit
    /\ dir_exists = TRUE
    /\ fold = 0
    /\ credential = TRUE
    /\ calls_this_minute = 0
    /\ elapsed = 0
    /\ ages = <<>>
    /\ issued = 0
    /\ waited = FALSE
    /\ sinceReset = 0
    /\ between = 0
    /\ apart = Window
    /\ retries = 0
    /\ retried = 0

\* One invocation over a directory in which one symbol has a file and the
\* others have none, against an upstream without end.
RateInit ==
    /\ src \in Sources
    /\ path = "path"
    /\ peer = NoPeer
    /\ symbols = << <<"A">>, <<"B">>, <<"C">> >>
    /\ upstream = "endless"
    /\ num_calls = NumCalls + 1
    /\ rate_limit = RateLimit
    /\ dir_exists = TRUE
    /\ fold = 0
    /\ credential = TRUE
    /\ now = MaxT
    /\ runs = MaxRuns - 1
    /\ disk = [f \in FileSet |-> IF f = Join(path, FileName(src, <<"B">>)) THEN Json(Bars(1, 1)) ELSE Absent]
    /\ pc = "idle"
    /\ at = "idle"
    /\ i = 1
    /\ is_fresh = TRUE
    /\ existing_data = <<>>
    /\ details = <<>>
    /\ new_data = <<>>
    /\ last_dt = 0
    /\ cur = 0
    /\ start_date = StartDefault
    /\ ncalls = 0
    /\ towrite = <<>>
    /\ prev = Absent
    /\ answers = {}
    /\ lastPage = <<>>
    /\ wrote = FALSE
    /\ faulty = FALSE
    /\ calls_this_minute = 0
    /\ elapsed = 0
    /\ ages = <<>>
    /\ issued = 0
    /\ waited = FALSE
    /\ sinceReset = 0
    /\ between = 0
    /\ apart = Window
    /\ retries = 0
    /\ retried = 0

\* Runs of one source over two symbols against the upstream's own history, in an
\* environment where the output directory or the source's key may be missing.
\* A directory that exists is empty or holds a damaged file and a valid one.
EnvInit ==
    /\ src \in Sources
    /\ path = "path"
    /\ peer = NoPeer
    /\ symbols = << <<"A">>, <<"B">> >>
    /\ upstream = "faithful"
    /\ now = 1
    /\ num_calls = NumCalls
    /\ rate_limit = DefaultRateLimit
    /\ dir_exists \in BOOLEAN
    /\ fold = 0
    /\ credential \in BOOLEAN
    /\ runs = 0
    /\ disk \in {[f \in FileSet |-> Absent]}
                 \cup (IF dir_exists
                       THEN {[f \in FileSet |-> IF f = Join(path, FileName(src, <<"A">>)) THEN BadDatetime
                                                ELSE Json(Bars(1, 1))]}
                       ELSE {})
    /\ pc = "idle"
    /\ at = "idle"
    /\ i = 1
    /\ is_fresh = TRUE
    /\ existing_data = <<>>
    /\ details = <<>>
    /\ new_data = <<>>
    /\ last_dt = 0
    /\ cur = 0
    /\ start_date = StartDefault
    /\ ncalls = 0
    /\ towrite = <<>>
    /\ prev = Absent
    /\ answers = {}
    /\ lastPage = <<>>
    /\ wrote = FALSE
    /\ faulty = FALSE
    /\ calls_this_minute = 0
    /\ elapsed = 0
    /\ ages = <<>>
    /\ issued = 0
    /\ waited = FALSE
    /\ sinceReset = 0
    /\ between = 0
    /\ apart = Window
    /\ retries = 0
    /\ retried = 0

\* symbols with and without the characters that call_specific_yf rewrites
SymbolNames == {<<"A">>, <<"^", "A">>, <<"A", "=", "X">>, <<"A", "_", "X">>}

\* Runs of one source over an empty directory for two distinct symbols.
NameInit ==
    /\ src \in Sources
    /\ path = "path"
    /\ peer = NoPeer
    /\ symbols \in {<<a, b>> : a, b \in SymbolNames} \ {<<a, a>> : a \in SymbolNames}
    /\ upstream = "faithful"
    /\ now = MaxT - 1
    /\ num_calls = NumCalls
    /\ rate_limit = DefaultRateLimit
    /\ dir_exists = TRUE
    /\ fold = 0
    /\ credential = TRUE
    /\ runs = MaxRuns - 2
    /\ disk = [f \in FileSet |-> Absent]
    /\ pc = "idle"
    /\ at = "idle"
    /\ i = 1
    /\ is_fresh = TRUE
    /\ existing_data = <<>>
    /\ details = <<>>
    /\ new_data = <<>>
    /\ last_dt = 0
    /\ cur = 0
    /\ start_date = StartDefault
    /\ ncalls = 0
    /\ towrite = <<>>
    /\ prev = Absent
    /\ answers = {}
    /\ lastPage = <<>>
    /\ wrote = FALSE
    /\ faulty = FALSE
    /\ calls_this_minute = 0
    /\ elapsed = 0
    /\ ages = <<>>
    /\ issued = 0
    /\ waited = FALSE
    /\ sinceReset = 0
    /\ between = 0
    /\ apart = Window
    /\ retries = 0
    /\ retried = 0

\* One FRESH run of call_specific_binance or call_specific_oanda for one symbol
\* against an upstream that may send a timestamp again with another payload.
DupInit ==
    /\ src \in {"binance", "oanda"}
    /\ path = "path"
    /\ peer = NoPeer
    /\ symbols = << <<"A">> >>
    /\ upstream = "revised"
    /\ now = MaxT
    /\ num_calls = NumCalls
    /\ rate_limit = DefaultRateLimit
    /\ dir_exists = TRUE
    /\ fold = 0
    /\ credential = TRUE
    /\ runs = MaxRuns - 1
    /\ disk = [f \in FileSet |-> Absent]
    /\ pc = "idle"
    /\ at = "idle"
    /\ i = 1
    /\ is_fresh = TRUE
    /\ existing_data = <<>>
    /\ details = <<>>
    /\ new_data = <<>>
    /\ last_dt = 0
    /\ cur = 0
    /\ start_date = StartDefault
    /\ ncalls = 0
    /\ towrite = <<>>
    /\ prev = Absent
    /\ answers = {}
    /\ lastPage = <<>>
    /\ wrote = FALSE
    /\ faulty = FALSE
    /\ calls_this_minute = 0
    /\ elapsed = 0
    /\ ages = <<>>
    /\ issued = 0
    /\ waited = FALSE
    /\ sinceReset = 0
    /\ between = 0
    /\ apart = Window
    /\ retries = 0
    /\ retried = 0

\* call_specific_binance for one symbol against the upstream's own history of
\* up to MaxHist bars, on a host whose clocks are never set back or are set back
\* at bar fold; the symbol has no file yet, or the series of an earlier run
\* that ended before the clocks were set back.
MaxHist == PageCeil * NumCalls + 1

PageInit ==
    /\ src = "binance"
    /\ path = "path"
    /\ peer = NoPeer
    /\ symbols = << <<"A">> >>
    /\ upstream = "faithful"
    /\ now \in 1..MaxHist
    /\ num_calls \in 1..NumCalls
    /\ rate_limit = DefaultRateLimit
    /\ dir_exists = TRUE
    /\ fold \in {0} \cup (FoldBars + 1)..MaxHist
    /\ credential = TRUE
    /\ runs = MaxRuns - 1
    /\ \E old \in {Absent} \cup {Json(Bars(1, c)) : c \in {d \in 1..now : fold = 0 \/ d < fold}} :
          disk = [f \in FileSet |-> old]
    /\ pc = "idle"
    /\ at = "idle"
    /\ i = 1
    /\ is_fresh = TRUE
    /\ existing_data = <<>>
    /\ details = <<>>
    /\ new_data = <<>>
    /\ last_dt = 0
    /\ cur = 0
    /\ start_date = StartDefault
    /\ ncalls = 0
    /\ towrite = <<>>
    /\ prev = Absent
    /\ answers = {}
    /\ lastPage = <<>>
    /\ wrote = FALSE
    /\ faulty = FALSE
    /\ calls_this_minute = 0
    /\ elapsed = 0
    /\ ages = <<>>
    /\ issued = 0
    /\ waited = FALSE
    /\ sinceReset = 0
    /\ between = 0
    /\ apart = Window
    /\ retries = 0
    /\ retried = 0

(* --------------------------- concurrent runs --------------------------- *)
\* the sources whose collector is called by a wrapper of src/data
Wrapped == {"binance", "oanda", "fred"}

\* every wrapper handing the same directory
OneDirForAll(source) == "data/raw"

\* the directory the wrapper of a source hands to its collector:
\* <package directory>/raw
OutputDir(source) ==
    CASE source = "binance" -> "data/crypto/raw"
      [] source = "oanda" -> "data/forex/raw"
      [] source = "fred" -> "data/interest/raw"
      [] OTHER -> "path"

\* the arguments and local variables of the run that is stepping
Context ==
    [src |-> src, symbols |-> symbols, num_calls |-> num_calls,
     rate_limit |-> rate_limit, credential |-> credential, path |-> path,
     runs |-> runs, pc |-> pc, at |-> at, i |-> i, is_fresh |-> is_fresh,
     existing_data |-> existing_data, details |-> details, new_data |-> new_data,
     last_dt |-> last_dt, cur |-> cur, start_date |-> start_date, ncalls |-> ncalls,
     towrite |-> towrite, prev |-> prev, answers |-> answers, lastPage |-> lastPage,
     wrote |-> wrote, faulty |-> faulty, calls_this_minute |-> calls_this_minute,
     elapsed |-> elapsed, ages |-> ages, issued |-> issued, waited |-> waited,
     sinceReset |-> sinceReset, between |-> between, apart |-> apart,
     retries |-> retries, retried |-> retried]

\* a run of a source as its wrapper starts it
Entry(source) ==
    [src |-> source, symbols |-> << <<"A">> >>, num_calls |-> NumCalls,
     rate_limit |-> DefaultRateLimit, credential |-> TRUE, path |-> OutputDir(source),
     runs |-> MaxRuns - 2, pc |-> "idle", at |-> "idle", i |-> 1, is_fresh |-> TRUE,
     existing_data |-> <<>>, details |-> <<>>, new_data |-> <<>>, last_dt |-> 0,
     cur |-> 0, start_date |-> StartDefault, ncalls |-> 0, towrite |-> <<>>,
     prev |-> Absent, answers |-> {}, lastPage |-> <<>>, wrote |-> FALSE,
     faulty |-> FALSE, calls_this_minute |-> 0, elapsed |-> 0, ages |-> <<>>,
     issued |-> 0, waited |-> FALSE, sinceReset |-> 0, between |-> 0,
     apart |-> Window, retries |-> 0, retried |-> 0]

\* Two wrappers are started side by side, each for one symbol of the same name,
\* over directories that are still empty, against the upstream's own history.
ParInit ==
    /\ upstream = "faithful"
    /\ now = MaxT
    /\ dir_exists = TRUE
    /\ fold = 0
    /\ \E a \in Wrapped :
          /\ peer \in {Entry(b) : b \in Wrapped \ {a}}
          /\ src = Entry(a).src
          /\ symbols = Entry(a).symbols
          /\ num_calls = Entry(a).num_calls
          /\ rate_limit = Entry(a).rate_limit
          /\ credential = Entry(a).credential
          /\ path = Entry(a).path
          /\ runs = Entry(a).runs
          /\ pc = Entry(a).pc
          /\ at = Entry(a).at
          /\ i = Entry(a).i
          /\ is_fresh = Entry(a).is_fresh
          /\ existing_data = Entry(a).existing_data
          /\ details = Entry(a).details
          /\ new_data = Entry(a).new_data
          /\ last_dt = Entry(a).last_dt
          /\ cur = Entry(a).cur
          /\ start_date = Entry(a).start_date
          /\ ncalls = Entry(a).ncalls
          /\ towrite = Entry(a).towrite
          /\ prev = Entry(a).prev
          /\ answers = Entry(a).answers
          /\ lastPage = Entry(a).lastPage
          /\ wrote = Entry(a).wrote
          /\ faulty = Entry(a).faulty
          /\ calls_this_minute = Entry(a).calls_this_minute
          /\ elapsed = Entry(a).elapsed
          /\ ages = Entry(a).ages
          /\ issued = Entry(a).issued
          /\ waited = Entry(a).waited
          /\ sinceReset = Entry(a).sinceReset
          /\ between = Entry(a).between
          /\ apart = Entry(a).apart
          /\ retries = Entry(a).retries
          /\ retried = Entry(a).retried
    /\ disk = [f \in FileSet \cup {Join(peer.path, FileName(peer.src, peer.symbols[1]))} |-> Absent]

\* the scheduler takes the processor from one run and gives it to the other
Switch ==
    /\ peer.src # "none"
    /\ peer' = Context
    /\ src' = peer.src
    /\ symbols' = peer.symbols
    /\ num_calls' = peer.num_calls
    /\ rate_limit' = peer.rate_limit
    /\ credential' = peer.credential
    /\ path' = peer.path
    /\ runs' = peer.runs
    /\ pc' = peer.pc
    /\ at' = peer.at
    /\ i' = peer.i
    /\ is_fresh' = peer.is_fresh
    /\ existing_data' = peer.existing_data
    /\ details' = peer.details
    /\ new_data' = peer.new_data
    /\ last_dt' = peer.last_dt
    /\ cur' = peer.cur
    /\ start_date' = peer.start_date
    /\ ncalls' = peer.ncalls
    /\ towrite' = peer.towrite
    /\ prev' = peer.prev
    /\ answers' = peer.answers
    /\ lastPage' = peer.lastPage
    /\ wrote' = peer.wrote
    /\ faulty' = peer.faulty
    /\ calls_this_minute' = peer.calls_this_minute
    /\ elapsed' = peer.elapsed
    /\ ages' = peer.ages
    /\ issued' = peer.issued
    /\ waited' = peer.waited
    /\ sinceReset' = peer.sinceReset
    /\ between' = peer.between
    /\ apart' = peer.apart
    /\ retries' = peer.retries
    /\ retried' = peer.retried
    /\ UNCHANGED <<upstream, now, dir_exists, fold, disk>>

\* write_data of data/equities/collector.py: runs of call_specific over its
\* directory, against the upstream's own history
LegacyInit ==
    /\ src = "equities"
    /\ path = "data/equities/raw"
    /\ peer = NoPeer
    /\ symbols = << <<"A">>, <<"B">> >>
    /\ upstream = "faithful"
    /\ now \in Times
    /\ num_calls = NumCalls
    /\ rate_limit = DefaultRateLimit
    /\ dir_exists = TRUE
    /\ fold = 0
    /\ credential = TRUE
    /\ runs = 0
    /\ disk = [f \in FileSet |-> Absent]
    /\ pc = "idle"
    /\ at = "idle"
    /\ i = 1
    /\ is_fresh = TRUE
    /\ existing_data = <<>>
    /\ details = <<>>
    /\ new_data = <<>>
    /\ last_dt = 0
    /\ cur = 0
    /\ start_date = StartDefault
    /\ ncalls = 0
    /\ towrite = <<>>
    /\ prev = Absent
    /\ answers = {}
    /\ lastPage = <<>>
    /\ wrote = FALSE
    /\ faulty = FALSE
    /\ calls_this_minute = 0
    /\ elapsed = 0
    /\ ages = <<>>
    /\ issued = 0
    /\ waited = FALSE
    /\ sinceReset = 0
    /\ between = 0
    /\ apart = Window
    /\ retries = 0
    /\ retried = 0

(* --------------------------- environment ------------------------------- *)
\* time passes before the next adapter call (a slow answer, a slow disk)
Elapse ==
    /\ pc \in {"fresh", "update"}
    /\ elapsed < Window \/ \E k \in 1..Len(ages) : ages[k] < Window
    /\ elapsed' = Later(elapsed, 1)
    /\ ages' = AgesLater(ages, 1)
    /\ waited' = TRUE
    /\ UNCHANGED <<config, peer, faulty, now, runs, disk, pc, at, i, locals, start_date,
                   calls_this_minute, issued, sinceReset, between, apart>>

\* a new bar appears upstream between two runs
Tick ==
    /\ pc \in Stopped
    /\ upstream = "faithful"
    /\ now < MaxT
    /\ now' = now + 1
    /\ UNCHANGED <<config, peer, faulty, runs, disk, pc, at, i, locals, start_date, timing>>

\* a persisted file is damaged or emptied between two runs
Damage ==
    /\ pc \in Stopped
    /\ \E s \in FileSet, f \in {BadDatetime, Json(<<>>)} :
          /\ ValidSeries(disk[s])
          /\ disk' = [disk EXCEPT ![s] = f]
    /\ pc' = "idle"
    /\ is_fresh' = TRUE
    /\ at' = "idle"
    /\ i' = 1
    /\ faulty' = FALSE
    /\ ResetLocals
    /\ ResetTiming
    /\ UNCHANGED <<config, peer, now, runs, start_date>>

\* the process is killed
Interrupt ==
    /\ pc \in Running
    /\ pc' = "crashed"
    /\ at' = pc
    /\ existing_data' = <<>>
    /\ details' = <<>>
    /\ new_data' = <<>>
    /\ last_dt' = 0
    /\ cur' = 0
    /\ lastPage' = <<>>
    /\ UNCHANGED <<config, peer, faulty, now, runs, disk, i, is_fresh, ncalls, towrite, prev,
                   answers, wrote, start_date, timing, retries, retried>>

(* ------------------------- the symbol loop ----------------------------- *)
\* the sources that read their key before the symbol loop
NoKeyUpFront == {}

\* token = os.getenv("OANDA_KEY") / api_key = os.getenv("FRED_API_KEY"):
\* if not token: raise ValueError
KeyUpFront == {"oanda", "fred"}

StartRun ==
    /\ pc \in Stopped
    /\ runs < MaxRuns
    /\ runs' = runs + 1
    /\ i' = 1
    /\ pc' = IF src \in KeyUpFront /\ ~credential THEN "raised" ELSE "load"
    /\ at' = "idle"
    /\ start_date' = StartDefault
    /\ faulty' = FALSE
    /\ is_fresh' = TRUE
    /\ ResetLocals
    /\ ResetTiming
    /\ UNCHANGED <<config, peer, now, disk>>

\* os.path.exists / json.load / strptime of the last record / os.remove
Load ==
    /\ pc = "load"
    /\ LET f == disk[file_path]
           valid == ValidSeries(f)
       IN  /\ prev' = f
           /\ is_fresh' = IsFresh(f, is_fresh)
           /\ disk' = IF Unparsable(f) THEN [disk EXCEPT ![file_path] = Absent] ELSE disk
           /\ existing_data' = IF valid THEN f.data ELSE <<>>
           /\ last_dt' = IF valid THEN Cursor(f) ELSE 0
           /\ start_date' = IF src = "fred" /\ valid THEN Cursor(f) + 1 ELSE start_date
           /\ cur' = CASE valid /\ src = "binance" -> Timestamp(Cursor(f), fold) + 1
                       [] valid -> Cursor(f) + 1
                       [] ~valid /\ src \in Paginated -> now
                       [] ~valid /\ src = "fred" -> start_date
                       [] OTHER -> StartDefault
           /\ pc' = IF is_fresh' THEN "fresh" ELSE "update"
    /\ details' = <<>>
    /\ new_data' = <<>>
    /\ ncalls' = 0
    /\ towrite' = <<>>
    /\ answers' = {}
    /\ lastPage' = <<>>
    /\ wrote' = FALSE
    /\ UNCHANGED <<config, peer, faulty, now, runs, at, i, timing, retries, retried>>

\* the collectors hold no makedirs: the directory is as it was found
DirAtOpen(exists) == exists

\* with open(file_path, "w"): the file is truncated; FileNotFoundError where the
\* directory does not exist
Open ==
    /\ pc = "open"
    /\ IF DirAtOpen(dir_exists)
       THEN /\ disk' = [disk EXCEPT ![file_path] = Truncated]
            /\ wrote' = TRUE
            /\ pc' = "dump"
       ELSE /\ disk' = disk
            /\ wrote' = wrote
            /\ pc' = "raised"
    /\ UNCHANGED <<config, peer, faulty, now, runs, at, i, is_fresh, existing_data, details,
                   new_data, last_dt, cur, start_date, ncalls, towrite, prev,
                   answers, lastPage, timing, retries, retried>>

\* json.dump(..., f) and the close of the file
Dump ==
    /\ pc = "dump"
    /\ disk' = [disk EXCEPT ![file_path] = Json(towrite)]
    /\ start_date' = IF src = "fred" THEN StartDefault ELSE start_date
    /\ pc' = "next"
    /\ UNCHANGED <<config, peer, faulty, now, runs, at, i, locals, timing>>

\* the `for symbol in symbols` loop advances or the function returns
NextSymbol ==
    /\ pc = "next"
    /\ i' = i + 1
    /\ pc' = IF i < Len(symbols) THEN "load" ELSE "returned"
    /\ is_fresh' = IF i < Len(symbols) THEN is_fresh ELSE TRUE
    /\ ResetLocals
    /\ IF i < Len(symbols) THEN UNCHANGED timing ELSE ResetTiming
    /\ UNCHANGED <<config, peer, faulty, now, runs, disk, at, start_date>>

(* ------------------------ paginated collectors ------------------------- *)
\* what the paging loop leaves alone
loopFrame == <<config, peer, now, runs, at, i, is_fresh, existing_data,
               start_date, prev, wrote>>

\* the repeated request asks for the page before
RetrySkipsPage(curr_time) == curr_time - PageCeil

\* `continue` in the inner loop: the request is repeated with curr_time as it was
RetryBoundary(curr_time) == curr_time

\* a loop that runs once more than num_calls
BudgetOneMore(done, budget) == done <= budget

\* for _ in range(num_calls): another iteration follows the ones done
BudgetLeft(done, budget) == done < budget

\* the test of the page length left out
NeverExhausted(batch) == FALSE

\* if len(batch) < 1000: break (5000 for oanda's UPDATE and for td)
HistoryExhausted(batch) == Len(batch) < PageCeil

\* every page persisted as soon as it is accepted
DiskPersistedPerPage(d, s, series) == [d EXCEPT ![s] = Json(series)]

\* the paging loops hold no write: the directory after a page is the directory before it
DiskAfterPage(d, s, series) == d

\* the write without the `if details:` around it
FreshExitUnguarded(det, series) ==
    /\ pc' = "open"
    /\ towrite' = series

\* FRESH, after the loop: `if details:` sort, deduplicate and write
FreshExit(det, series) ==
    /\ pc' = IF det # <<>> THEN "open" ELSE "next"
    /\ towrite' = IF det # <<>> THEN series ELSE <<>>

\* the new records written in place of the series
UpdateExitNewOnly(nd) ==
    /\ pc' = IF nd # <<>> THEN "open" ELSE "next"
    /\ towrite' = nd

\* UPDATE, after the loop: `if new_data:` write existing_data + new_data
UpdateExit(nd) ==
    /\ pc' = IF nd # <<>> THEN "open" ELSE "next"
    /\ towrite' = IF nd # <<>> THEN existing_data \o nd ELSE <<>>

\* one iteration of `for _ in range(num_calls)` of call_specific_binance
BinanceFresh ==
    /\ src = "binance"
    /\ pc = "fresh"
    /\ \E raw \in UpstreamAnswers(TRUE, cur) :
          LET lim == Acquire(calls_this_minute, elapsed, rate_limit)
              data == BinanceAPI(raw, fold)
              batch == data.values
              stop == data.status = "error" \/ batch = <<>>
              det == IF stop THEN details ELSE details \o batch
              more == ~stop /\ ~HistoryExhausted(batch) /\ BudgetLeft(ncalls + 1, num_calls)
          IN  /\ Bounded(Len(det))
              /\ Limited(lim)
              /\ details' = det
              /\ ncalls' = ncalls + 1
              /\ cur' = IF stop THEN cur ELSE Timestamp(batch[1].datetime, fold) - 1
              /\ answers' = answers \cup AnswerKind(raw, prev)
              /\ faulty' = (faulty \/ raw.fault)
              /\ lastPage' = <<>>
              /\ IF more THEN pc' = "fresh" /\ towrite' = <<>>
                 ELSE FreshExit(det, UniqueDetails(SortByDatetime(det)))
    /\ disk' = DiskAfterPage(disk, file_path, details')
    /\ UNCHANGED <<loopFrame, new_data, last_dt, retries, retried>>

\* one iteration of `for i in range(num_calls)` of call_specific_oanda
OandaFresh ==
    /\ src = "oanda"
    /\ pc = "fresh"
    /\ \E raw \in UpstreamAnswers(TRUE, cur) :
          LET lim == Acquire(calls_this_minute, elapsed, rate_limit)
              data == OandaAPI(raw)
              batch == data.values
              stop == data.status = "error" \/ batch = <<>>
              det == IF stop THEN details ELSE details \o batch
              more == ~stop /\ BudgetLeft(ncalls + 1, num_calls)
          IN  /\ Bounded(Len(det))
              /\ Limited(lim)
              /\ details' = det
              /\ ncalls' = ncalls + 1
              /\ cur' = IF stop THEN cur ELSE batch[1].datetime - 1
              /\ answers' = answers \cup AnswerKind(raw, prev)
              /\ faulty' = (faulty \/ raw.fault)
              /\ lastPage' = <<>>
              /\ IF more THEN pc' = "fresh" /\ towrite' = <<>>
                 ELSE FreshExit(det, UniqueDetails(SortByDatetime(det)))
    /\ disk' = DiskAfterPage(disk, file_path, details')
    /\ UNCHANGED <<loopFrame, new_data, last_dt, retries, retried>>

\* one request of the FRESH loop of call_specific_td (inner retry loop included)
TdFresh ==
    /\ src = "td"
    /\ pc = "fresh"
    /\ \E raw \in UpstreamAnswers(TRUE, cur) :
          LET lim == TdAcquire(calls_this_minute, elapsed, rate_limit)
              data == TwelveDataAPI(raw)
              batch == data.values
              retry == data.status = "error" /\ data.message = "run out of API credits"
              stop == data.status = "error" \/ batch = <<>>
              det == IF stop THEN details ELSE details \o batch
              more == ~stop /\ ~HistoryExhausted(batch) /\ BudgetLeft(ncalls + 1, num_calls)
          IN  /\ Bounded(Len(det))
              /\ answers' = answers \cup AnswerKind(raw, prev)
              /\ faulty' = (faulty \/ raw.fault)
              /\ lastPage' = <<>>
              /\ CASE data.status = "raise" ->
                        /\ pc' = "raised"
                        /\ Limited(lim)
                        /\ UNCHANGED <<details, ncalls, cur, towrite, retries, retried>>
                   [] retry ->
                        /\ retries < MaxRetries
                        /\ retries' = retries + 1
                        /\ retried' = ncalls + 1
                        /\ LimitedCredits(lim)
                        /\ cur' = RetryBoundary(cur)
                        /\ UNCHANGED <<pc, details, ncalls, towrite>>
                   [] OTHER ->
                        /\ Limited(lim)
                        /\ retries' = 0
                        /\ retried' = retried
                        /\ details' = det
                        /\ ncalls' = ncalls + 1
                        /\ cur' = IF more THEN Last(batch).datetime - 1 ELSE cur
                        /\ IF more THEN pc' = "fresh" /\ towrite' = <<>>
                           ELSE FreshExit(det, Reverse(det))
    /\ disk' = DiskAfterPage(disk, file_path, details')
    /\ UNCHANGED <<loopFrame, new_data, last_dt>>

\* one iteration of the UPDATE `while True` of call_specific_binance
BinanceUpdate ==
    /\ src = "binance"
    /\ pc = "update"
    /\ \E raw \in UpstreamAnswers(FALSE, cur) :
          LET lim == Acquire(calls_this_minute, elapsed, rate_limit)
              data == BinanceAPI(raw, fold)
              batch == KeepNewer(data.values, last_dt)
              stop == data.status = "error" \/ batch = <<>>
              nd == IF stop THEN new_data ELSE new_data \o batch
              more == ~stop /\ ~HistoryExhausted(batch)
          IN  /\ more => ncalls + 1 < MaxPages
              /\ Bounded(Len(existing_data) + Len(nd))
              /\ Limited(lim)
              /\ new_data' = nd
              /\ ncalls' = ncalls + 1
              /\ cur' = IF stop THEN cur ELSE Timestamp(Last(batch).datetime, fold) + 1
              /\ answers' = answers \cup AnswerKind(raw, prev)
              /\ faulty' = (faulty \/ raw.fault)
              /\ lastPage' = raw.page
              /\ IF more THEN pc' = "update" /\ towrite' = <<>>
                 ELSE UpdateExit(nd)
    /\ disk' = DiskAfterPage(disk, file_path, existing_data \o new_data')
    /\ UNCHANGED <<loopFrame, details, last_dt, retries, retried>>

\* one iteration of the UPDATE `while True` of call_specific_oanda
OandaUpdate ==
    /\ src = "oanda"
    /\ pc = "update"
    /\ \E raw \in UpstreamAnswers(FALSE, cur) :
          LET lim == Acquire(calls_this_minute, elapsed, rate_limit)
              data == OandaAPI(raw)
              batch == KeepNewer(data.values, last_dt)
              stop == data.status = "error" \/ batch = <<>>
              nd == IF stop THEN new_data ELSE new_data \o batch
              more == ~stop /\ ~HistoryExhausted(batch)
          IN  /\ more => ncalls + 1 < MaxPages
              /\ Bounded(Len(existing_data) + Len(nd))
              /\ Limited(lim)
              /\ new_data' = nd
              /\ ncalls' = ncalls + 1
              /\ cur' = IF stop THEN cur ELSE Last(batch).datetime + 1
              /\ answers' = answers \cup AnswerKind(raw, prev)
              /\ faulty' = (faulty \/ raw.fault)
              /\ lastPage' = raw.page
              /\ IF more THEN pc' = "update" /\ towrite' = <<>>
                 ELSE UpdateExit(nd)
    /\ disk' = DiskAfterPage(disk, file_path, existing_data \o new_data')
    /\ UNCHANGED <<loopFrame, details, last_dt, retries, retried>>

\* one request of the UPDATE loop of call_specific_td (inner retry loop included)
TdUpdate ==
    /\ src = "td"
    /\ pc = "update"
    /\ \E raw \in UpstreamAnswers(FALSE, last_dt + 1) :
          LET lim == TdAcquire(calls_this_minute, elapsed, rate_limit)
              data == TwelveDataAPI(raw)
              batch == KeepNewer(data.values, last_dt)
              retry == data.status = "error" /\ data.message = "run out of API credits"
              stop == data.status = "error" \/ batch = <<>>
              nd == IF stop THEN new_data ELSE new_data \o batch
              more == ~stop /\ ~HistoryExhausted(batch)
          IN  /\ more => ncalls + 1 < MaxPages
              /\ Bounded(Len(existing_data) + Len(nd))
              /\ answers' = answers \cup AnswerKind(raw, prev)
              /\ faulty' = (faulty \/ raw.fault)
              /\ lastPage' = raw.page
              /\ CASE data.status = "raise" ->
                        /\ pc' = "raised"
                        /\ Limited(lim)
                        /\ UNCHANGED <<new_data, ncalls, cur, last_dt, towrite, retries, retried>>
                   [] retry ->
                        /\ retries < MaxRetries
                        /\ retries' = retries + 1
                        /\ retried' = ncalls + 1
                        /\ LimitedCredits(lim)
                        /\ UNCHANGED <<pc, new_data, ncalls, cur, last_dt, towrite>>
                   [] OTHER ->
                        /\ Limited(lim)
                        /\ retries' = 0
                        /\ retried' = retried
                        /\ new_data' = nd
                        /\ ncalls' = ncalls + 1
                        /\ last_dt' = IF stop THEN last_dt ELSE Last(batch).datetime
                        /\ cur' = last_dt' + 1
                        /\ IF more THEN pc' = "update" /\ towrite' = <<>>
                           ELSE UpdateExit(nd)
    /\ disk' = DiskAfterPage(disk, file_path, existing_data \o new_data')
    /\ UNCHANGED <<loopFrame, details>>

(* ------------------------ single-call collectors ----------------------- *)
\* the call of FredAPI for one series and the branches that follow it
FredCall ==
    /\ src = "fred"
    /\ pc \in {"fresh", "update"}
    /\ \E raw \in UpstreamAnswers(is_fresh, cur) :
          LET lim == Acquire(calls_this_minute, elapsed, rate_limit)
              data == FredAPI(raw)
              new_values == IF is_fresh THEN data.values
                            ELSE NotInExisting(data.values, existing_data)
              skip == data.status = "error" \/ data.values = <<>>
          IN  /\ Bounded(Len(existing_data) + Len(new_values))
              /\ Limited(lim)
              /\ answers' = answers \cup AnswerKind(raw, prev)
              /\ faulty' = (faulty \/ raw.fault)
              /\ lastPage' = raw.page
              /\ ncalls' = ncalls + 1
              /\ IF skip
                 THEN /\ pc' = "next"
                      /\ UNCHANGED <<details, new_data, towrite, start_date>>
                 ELSE /\ details' = IF is_fresh THEN new_values ELSE <<>>
                      /\ new_data' = IF is_fresh THEN <<>> ELSE new_values
                      /\ pc' = IF new_values # <<>> THEN "open" ELSE "next"
                      /\ towrite' = IF new_values # <<>> THEN existing_data \o new_values ELSE <<>>
                      /\ start_date' = IF new_values # <<>> THEN start_date ELSE StartDefault
    /\ UNCHANGED <<config, peer, now, runs, disk, at, i, is_fresh, existing_data,
                   last_dt, cur, prev, wrote, retries, retried>>

\* the call of YFinanceAPI for one symbol and the branches that follow it
YfCall ==
    /\ src = "yf"
    /\ pc \in {"fresh", "update"}
    /\ \E raw \in UpstreamAnswers(is_fresh, cur) :
          LET lim == Acquire(calls_this_minute, elapsed, rate_limit)
              data == YFinanceAPI(raw)
              new_values == IF is_fresh THEN SortByDatetime(data.values)
                            ELSE SortByDatetime(NotInExisting(data.values, existing_data))
              skip == data.status = "error" \/ data.values = <<>>
          IN  /\ Bounded(Len(existing_data) + Len(new_values))
              /\ Limited(lim)
              /\ answers' = answers \cup AnswerKind(raw, prev)
              /\ faulty' = (faulty \/ raw.fault)
              /\ lastPage' = raw.page
              /\ ncalls' = ncalls + 1
              /\ IF skip
                 THEN /\ pc' = "next"
                      /\ UNCHANGED <<details, new_data, towrite>>
                 ELSE /\ details' = IF is_fresh THEN new_values ELSE <<>>
                      /\ new_data' = IF is_fresh THEN <<>> ELSE new_values
                      /\ pc' = IF new_values # <<>> THEN "open" ELSE "next"
                      /\ towrite' = IF new_values # <<>> THEN existing_data \o new_values ELSE <<>>
    /\ UNCHANGED <<config, peer, now, runs, disk, at, i, is_fresh, existing_data,
                   last_dt, cur, start_date, prev, wrote, retries, retried>>

(* ------------------------- equities collector -------------------------- *)
\* call_specific of data/equities/collector.py: no file is read, every symbol
\* is collected anew
\* curr_time = datetime.datetime.now(); details = []
EquitiesBegin ==
    /\ src = "equities"
    /\ pc = "load"
    /\ cur' = now
    /\ details' = <<>>
    /\ pc' = "fresh"
    /\ UNCHANGED <<config, peer, faulty, now, runs, disk, at, i, is_fresh, existing_data,
                   new_data, last_dt, start_date, ncalls, towrite, prev, answers,
                   lastPage, wrote, timing, retries, retried>>

\* one request of `for _ in range(num_calls)`, within its `while retries <=
\* retry_patience`, and what follows the while loop
EquitiesFetch ==
    /\ src = "equities"
    /\ pc = "fresh"
    /\ \E raw \in UpstreamAnswers(TRUE, cur) :
          LET data == TwelveDataAPI(raw)
              batch == data.values
              credits == data.status = "error" /\ data.message = "run out of API credits"
              stop == data.status = "error" \/ batch = <<>> \/ Len(batch) < PageCeil
              det == IF stop THEN details ELSE details \o batch
              more == ~stop /\ BudgetLeft(ncalls + 1, num_calls)
          IN  /\ Bounded(Len(det))
              /\ answers' = answers \cup AnswerKind(raw, prev)
              /\ faulty' = (faulty \/ raw.fault)
              /\ CASE data.status = "raise" ->
                        /\ pc' = "raised"
                        /\ UNCHANGED <<details, ncalls, cur, towrite, retries, retried>>
                   [] credits /\ retries < RetryPatience ->
                        /\ retries' = retries + 1
                        /\ retried' = ncalls + 1
                        /\ UNCHANGED <<pc, details, ncalls, cur, towrite>>
                   [] OTHER ->
                        /\ retries' = 0
                        /\ retried' = retried
                        /\ details' = det
                        /\ ncalls' = ncalls + 1
                        /\ cur' = IF stop THEN cur ELSE Last(batch).datetime - 1
                        /\ IF more THEN pc' = "fresh" /\ towrite' = <<>>
                           ELSE FreshExit(det, det)
    /\ UNCHANGED <<loopFrame, disk, new_data, last_dt, lastPage, timing>>

(* ---------------------------- specification ---------------------------- *)
Next ==
    \/ StartRun
    \/ Load
    \/ BinanceFresh
    \/ BinanceUpdate
    \/ OandaFresh
    \/ OandaUpdate
    \/ TdFresh
    \/ TdUpdate
    \/ FredCall
    \/ YfCall
    \/ Open
    \/ Dump
    \/ NextSymbol
    \/ Interrupt
    \/ Tick
    \/ Damage

Spec == Init /\ [][Next]_vars

\* the collectors with the time of their calls
RateNext ==
    \/ StartRun
    \/ Load
    \/ BinanceFresh
    \/ BinanceUpdate
    \/ OandaFresh
    \/ OandaUpdate
    \/ TdFresh
    \/ TdUpdate
    \/ FredCall
    \/ YfCall
    \/ Open
    \/ Dump
    \/ NextSymbol
    \/ Elapse

RateSpec == RateInit /\ [][RateNext]_vars

\* the collectors in an environment that may lack the directory or the key
EnvSpec == EnvInit /\ [][Next]_vars

\* two wrapped collectors, interleaved step by step
ParNext ==
    \/ StartRun
    \/ Load
    \/ BinanceFresh
    \/ BinanceUpdate
    \/ OandaFresh
    \/ OandaUpdate
    \/ FredCall
    \/ Open
    \/ Dump
    \/ NextSymbol
    \/ Switch

ParSpec == ParInit /\ [][ParNext]_vars

\* the equities collector
LegacyNext ==
    \/ StartRun
    \/ EquitiesBegin
    \/ EquitiesFetch
    \/ Open
    \/ Dump
    \/ NextSymbol
    \/ Tick

LegacySpec == LegacyInit /\ [][LegacyNext]_vars

\* the FRESH collection of binance and oanda
DupNext ==
    \/ StartRun
    \/ Load
    \/ BinanceFresh
    \/ OandaFresh
    \/ Open
    \/ Dump
    \/ NextSymbol

DupSpec == DupInit /\ [][DupNext]_vars

\* runs of call_specific_binance alone
PageNext ==
    \/ StartRun
    \/ Load
    \/ BinanceFresh
    \/ BinanceUpdate
    \/ Open
    \/ Dump
    \/ NextSymbol

PageSpec == PageInit /\ [][PageNext]_vars

\* the collectors over symbols whose names hold special characters
NameSpec == NameInit /\ [][Next]_vars

TypeOK ==
    /\ src \in Sources \cup {"equities"}
    /\ pc \in Stopped \cup Running
    /\ now \in Times
    /\ runs \in 0..MaxRuns
    /\ \A s \in FileSet : disk[s].kind \in {"absent", "json", "badjson", "baddt"}

(* ------------------------------ properties ----------------------------- *)
\* the position of the collector, seen through an interruption
Position == IF pc = "crashed" THEN at ELSE pc

\* the file the load left on disk: an unparsable file was removed
Kept(f) == IF Unparsable(f) THEN Absent ELSE f

\* the current symbol has been processed in UPDATE mode and the loop is about to advance
UpdateDone == pc = "next" /\ ~is_fresh

\* the records the UPDATE run appended to the series it found
Appended == SubSeq(disk[file_path].data, Len(prev.data) + 1, Len(disk[file_path].data))

\* C1: after one FRESH run and any number of UPDATE runs of call_specific_binance
\* or call_specific_oanda, for any pages of the upstream, every persisted series
\* has strictly increasing (hence unique) timestamps.
C1_SeriesStrictlyIncreasing ==
    src \in {"binance", "oanda"} =>
        \A s \in FileSet :
            disk[s].kind = "json" => StrictlyIncreasing(disk[s].data)

\* C2: in UPDATE mode, for every source, every record appended to a persisted
\* series has a timestamp strictly greater than the cursor read at the start of
\* the run.
C2_AppendedAfterCursor ==
    (UpdateDone /\ wrote) =>
        \A k \in 1..Len(Appended) : Appended[k].datetime > Cursor(prev)

\* C3: for call_specific_binance, call_specific_oanda and call_specific_td, the
\* cursor after an UPDATE run that writes is greater than or equal to the cursor
\* before that run, for any upstream pages.
C3_CursorMonotone ==
    (src \in Paginated /\ UpdateDone /\ wrote) =>
        Cursor(disk[file_path]) >= Cursor(prev)

\* C3 witness: a paginated UPDATE run has written after two pages, one of them
\* holding a record at or before the old cursor.
C3_Witness ==
    /\ src \in Paginated
    /\ UpdateDone
    /\ wrote
    /\ ncalls = 2
    /\ \E k \in 1..Len(lastPage) : lastPage[k].datetime <= Cursor(prev)

\* every answer the current symbol got was empty, a no-data error or a page of
\* records whose timestamps are already in the series
NothingNew == answers # {} /\ answers \cap {"new", "error"} = {}

\* C4: with a valid persisted series and an upstream that returns nothing new,
\* an UPDATE run performs no write and leaves the file unchanged, for every source.
C4_UpdateIdempotent ==
    (UpdateDone /\ NothingNew) => (~wrote /\ disk[file_path] = prev)

\* the single answer of the run was a page shorter than the ceiling, in ascending order
OnePartialAscendingPage ==
    /\ ncalls = 1
    /\ answers \cap {"nodata", "error"} = {}
    /\ Len(lastPage) < PageCeil
    /\ Ascending(lastPage)

\* the records of page P with a timestamp after T, in the order of P
NewOf(P, T) == SelectSeq(P, LAMBDA r : r.datetime > T)

\* C5: call_specific_binance / call_specific_oanda in UPDATE mode, series S with
\* cursor T, one partial ascending page P: the file afterwards is S followed by
\* the records of P newer than T, the length grows by their number and the
\* cursor becomes the latest new timestamp.
C5_AppendExact ==
    (src \in {"binance", "oanda"} /\ UpdateDone /\ OnePartialAscendingPage) =>
        LET new == NewOf(lastPage, Cursor(prev))
            after == disk[file_path].data
        IN  /\ after = prev.data \o new
            /\ Len(after) = Len(prev.data) + Len(new)
            /\ new # <<>> =>
                  /\ Cursor(disk[file_path]) = Last(new).datetime
                  /\ \A k \in 1..Len(new) : new[k].datetime <= Cursor(disk[file_path])

\* C5 witness: the page held a record at the cursor and a newer one, and the run wrote.
C5_Witness ==
    /\ src \in {"binance", "oanda"}
    /\ UpdateDone
    /\ OnePartialAscendingPage
    /\ wrote
    /\ \E k \in 1..Len(lastPage) : lastPage[k].datetime = Cursor(prev)
    /\ \E k \in 1..Len(lastPage) : lastPage[k].datetime > Cursor(prev)

\* C6: call_specific_fred / call_specific_yf merging any batch into a strictly
\* increasing series leave a series with strictly increasing timestamps, no
\* timestamp twice.
C6_SingleCallMergeStrict ==
    (src \in SingleCall /\ UpdateDone /\ StrictlyIncreasing(prev.data)) =>
        /\ StrictlyIncreasing(disk[file_path].data)
        /\ NoDuplicateTimestamps(disk[file_path].data)

\* C7: a crash during a write leaves the symbol's file as the complete previous
\* series or the complete new series.
C7_AtomicSave ==
    (pc = "crashed" /\ at \in {"open", "dump"}) =>
        disk[file_path] \in {Kept(prev), Json(towrite)}

\* C8: while the pages of a symbol are being fetched, also when the run is
\* interrupted there, nothing has been written and the file is the one the load
\* left; once paging has ended the accepted records are on disk together, in
\* the one series that was written, or not at all.
C8_NoPartialPersist ==
    /\ Position \in {"fresh", "update"} => (~wrote /\ disk[file_path] = Kept(prev))
    /\ (pc = "next" /\ wrote) =>
          /\ disk[file_path] = Json(towrite)
          /\ Datetimes(towrite) = Datetimes(existing_data \o details \o new_data)
    /\ (pc = "next" /\ ~wrote) =>
          /\ disk[file_path] = Kept(prev)
          /\ details = <<>>
          /\ new_data = <<>>

\* C8 witness: an UPDATE run is interrupted after a page of new records was accepted.
C8_Witness ==
    /\ pc = "crashed"
    /\ at = "update"
    /\ ValidSeries(prev)
    /\ ncalls >= 1
    /\ "new" \in answers

\* C9: whatever the upstream answers for a symbol, the collector returns
\* normally and goes on to the later symbols: no run ends in an exception.
C9_BatchNeverAborted ==
    /\ pc # "raised"
    /\ pc = "returned" => i = Len(symbols) + 1

\* every answer of the run so far was the one the upstream's history calls for
Healthy == upstream = "faithful" /\ ~faulty

\* what a FRESH collection from a healthy upstream gathers
FullSeries ==
    IF src \in Paginated THEN Bars(Max(1, now - PageCeil * num_calls + 1), now)
    ELSE Bars(StartDefault, now)

\* C10: a symbol whose file cannot be parsed is processed in FRESH mode without
\* raising, and with a healthy upstream its file afterwards is the fully
\* re-collected series.
C10_CorruptionRecovery ==
    (pc = "next" /\ Unparsable(prev)) =>
        /\ is_fresh
        /\ Healthy => disk[file_path] = Json(FullSeries)

\* C11: a symbol is processed in UPDATE mode exactly when its file exists and
\* holds a non-empty parsable series, and in FRESH mode otherwise (no file, an
\* empty list, an unparsable file), whatever the mode of the other symbols.
C11_ModeSelection ==
    Position \in {"fresh", "update", "open", "dump", "next"} =>
        /\ is_fresh = ~(prev.kind = "json" /\ prev.data # <<>>)
        /\ Position = "fresh" => is_fresh
        /\ Position = "update" => ~is_fresh
        /\ is_fresh => new_data = <<>>
        /\ ~is_fresh => details = <<>>

\* C11 witness: the second symbol was processed in UPDATE mode in a run whose
\* first symbol had no series (its file is still missing), hence was FRESH.
C11_Witness ==
    /\ i = 2
    /\ pc = "next"
    /\ ~is_fresh
    /\ disk[Join(path, FileName(src, symbols[1]))].kind = "absent"

\* an adapter call has just been issued
JustIssued == ages # <<>> /\ ages[1] = 0

\* C12: with the ceiling rate_limit per Window, a run never issues more than
\* rate_limit adapter calls within an interval of length Window: when a call is
\* issued, the call rate_limit calls before it lies at least Window back.
C12_MaxCallRate ==
    (JustIssued /\ Len(ages) > rate_limit) => ages[rate_limit + 1] >= Window

\* the collectors that share the limiter of call_specific_binance
SharedLimiter == {"binance", "oanda", "fred", "yf"}

\* the calls of the run were made as fast as possible: no time has passed but in time.sleep
AsFastAsPossible == ~waited

\* C13 as stated: when rate_limit + 1 calls are made as fast as possible, at
\* least Window passes between call number rate_limit and the call after it.
C13_WaitAfterNth ==
    (src \in SharedLimiter /\ AsFastAsPossible /\ JustIssued /\ issued = rate_limit + 1) =>
        ages[2] >= Window

\* C13 amended: the limiter sleeps before call number rate_limit (>= 2), not
\* after it: made as fast as possible, that call comes at least Window after
\* the call before it, and so the call after it at least Window after the first.
C13_WaitBeforeNth ==
    (src \in SharedLimiter /\ AsFastAsPossible /\ JustIssued) =>
        /\ issued = rate_limit => ages[2] >= Window
        /\ issued = rate_limit + 1 => ages[rate_limit + 1] >= Window

\* C13 witness: rate_limit + 1 calls have been made as fast as possible.
C13_Witness ==
    /\ src \in SharedLimiter
    /\ AsFastAsPossible
    /\ JustIssued
    /\ issued = rate_limit + 1
    /\ ages[2] = 0

\* page p in ascending order, p being in the native order of the source
\* (oldest first for binance, newest first for td)
AscendingOf(p) == IF src = "td" THEN Reverse(p) ELSE p

\* p is a partial page: 0 < k < ceiling records, distinct, in native order
PartialNative(p) ==
    /\ p # <<>>
    /\ Len(p) < PageCeil
    /\ StrictlyIncreasing(AscendingOf(p))

\* C14: FRESH collection by call_specific_binance or call_specific_td whose
\* first page is partial: that call is the only adapter call for the symbol,
\* whatever budget remains, and the series written holds exactly the records of
\* the page in ascending order.
C14_PartialFirstPage ==
    /\ [][(/\ src \in {"binance", "td"}
            /\ pc = "fresh"
            /\ ncalls = 0
            /\ answers = {}
            /\ PartialNative(details'))
              => (/\ ncalls' = 1
                  /\ pc' = "open"
                  /\ towrite' = AscendingOf(details'))]_vars
    /\ [](  (/\ src \in {"binance", "td"}
              /\ pc = "next"
              /\ is_fresh
              /\ ncalls = 1
              /\ PartialNative(details))
                => (wrote /\ disk[file_path] = Json(AscendingOf(details))))

\* C14 witness: call_specific_td has written the two records of a newest-first
\* first page, with call budget left.
C14_Witness ==
    /\ src = "td"
    /\ pc = "next"
    /\ is_fresh
    /\ ncalls = 1
    /\ ncalls < num_calls
    /\ Len(details) = 2
    /\ details[1].datetime > details[2].datetime
    /\ disk[file_path] = Json(Reverse(details))

\* every adapter call of the symbol so far was answered with a full page
AllPagesFull ==
    /\ answers \cap {"error", "nodata", "empty"} = {}
    /\ Len(details) = ncalls * PageCeil

\* C15: in FRESH mode call_specific_binance and call_specific_oanda make at most
\* num_calls adapter calls per symbol, and exactly num_calls when every page is
\* full and free of errors.
C15_CallBudget ==
    (src \in {"binance", "oanda"} /\ is_fresh) =>
        /\ Position \in {"fresh", "open", "dump", "next"} => ncalls <= num_calls
        /\ (pc \in {"open", "dump", "next"} /\ AllPagesFull) => ncalls = num_calls

\* C15 witness: num_calls full pages were collected and written.
C15_Witness ==
    /\ src \in {"binance", "oanda"}
    /\ is_fresh
    /\ pc = "next"
    /\ wrote
    /\ AllPagesFull
    /\ ncalls = num_calls
    /\ num_calls >= 3

\* C16: per-symbol collection by call_specific_binance and call_specific_oanda
\* ends in FRESH and in UPDATE mode for any upstream, also one that keeps
\* answering with full pages of newer records: the adapter calls made for one
\* symbol in one run stay within the call budget num_calls, the one bound the
\* collector is given.
C16_PagingBounded ==
    (src \in {"binance", "oanda"} /\ Position \in Running \ {"load"}) =>
        ncalls <= num_calls

\* C17: in call_specific_td a request answered with "run out of API credits"
\* is repeated a bounded number of times only and the symbol is then given up:
\* the repetitions of one request stay below MaxRetries, the largest number
\* followed here.
C17_RetriesBounded ==
    src = "td" => retries < MaxRetries

\* C18: FRESH run of call_specific_td whose second request is answered with
\* "run out of API credits": the run sleeps and repeats the request with the
\* same end boundary, accepting nothing from the failed answer, and goes on to
\* the later requests; when every request has got its page the series written
\* holds the records of all pages, each once (the upstream's bars up to now
\* without a gap and without a repetition).
C18_RetryKeepsPages ==
    /\ [][(src = "td" /\ pc = "fresh" /\ retries' = retries + 1)
              => (/\ cur' = cur
                  /\ details' = details
                  /\ ncalls' = ncalls
                  /\ pc' = "fresh"
                  /\ ages'[1] >= MinSleep + SleepMargin)]_vars
    /\ [](  (/\ src = "td"
              /\ upstream = "endless"
              /\ is_fresh
              /\ pc = "next"
              /\ retried = 2
              /\ ncalls = num_calls
              /\ Len(details) = num_calls * PageCeil)
                => (/\ wrote
                    /\ disk[file_path] = Json(Bars(now - num_calls * PageCeil + 1, now))))

\* C18 witness: three pages were collected and written, the second request
\* having been repeated.
C18_Witness ==
    /\ src = "td"
    /\ is_fresh
    /\ pc = "next"
    /\ retried = 2
    /\ num_calls >= 3
    /\ ncalls = num_calls
    /\ Len(details) = num_calls * PageCeil
    /\ wrote

\* C19: for call_specific_binance and call_specific_oanda a retryable failure
\* of a page request (HTTP 429, a network failure) is followed by the same
\* request again: the first such failure of a symbol does not end its paging.
C19_RetryableRetried ==
    [][(/\ src \in {"binance", "oanda"}
        /\ pc \in {"fresh", "update"}
        /\ "retryable" \notin answers
        /\ "retryable" \in answers')
          => (pc' = pc /\ cur' = cur)]_vars

\* the records accepted from the pages of the current symbol
Accepted == details \o new_data

\* the series found and the accepted records are in the symbol's file
Persisted ==
    /\ disk[file_path].kind = "json"
    /\ Datetimes(existing_data \o Accepted) \subseteq Datetimes(disk[file_path].data)

\* C20: when a failure or an empty page ends the paging of a symbol after at
\* least one page was accepted, the records of the earlier pages are persisted
\* (FRESH and UPDATE mode of the three paginated collectors).
C20_EarlierPagesPersisted ==
    (src \in Paginated /\ Accepted # <<>>) =>
        /\ (pc = "next" /\ answers \cap {"error", "nodata", "empty"} # {}) => (wrote /\ Persisted)
        /\ pc = "raised" => Persisted

\* C21: when the directory handed to a call_specific_* function does not exist
\* and the upstream returned records for a symbol, the run does not raise and the
\* symbol's series is persisted under that directory.
C21_DirectoryOnDemand ==
    (~dir_exists /\ towrite # <<>>) =>
        /\ pc # "raised"
        /\ pc = "next" => disk[file_path] = Json(towrite)

\* C22: a symbol for which no record was collected gets no file, and every
\* write of a call_specific_* function stores a series of at least one record.
C22_NoEmptyFile ==
    /\ pc \in {"open", "dump"} => towrite # <<>>
    /\ (pc = "next" /\ wrote) => ValidSeries(disk[file_path])
    /\ (pc = "next" /\ Accepted = <<>>) => (~wrote /\ disk[file_path] = Kept(prev))

\* a FRESH symbol whose request came back empty has been passed without a file
C22_Witness ==
    /\ pc = "next"
    /\ is_fresh
    /\ "empty" \in answers
    /\ Accepted = <<>>
    /\ disk[file_path] = Absent

\* C23: when the adapter of call_specific_fred or call_specific_yf reports an
\* error for a symbol, the symbol's file is left as it was found (absent stays
\* absent, a valid file stays as it is), nothing is written and the loop goes on
\* to the next symbol.
C23_ErrorLeavesFile ==
    (src \in SingleCall /\ "error" \in answers /\ ~Unparsable(prev)) =>
        /\ Position = "next"
        /\ ~wrote
        /\ disk[file_path] = prev

\* the request of a symbol that has a valid file was answered with an error
C23_Witness ==
    /\ src \in SingleCall
    /\ pc = "next"
    /\ "error" \in answers
    /\ ValidSeries(prev)
    /\ disk[file_path] = prev
    /\ i < Len(symbols)

\* C24: when the key of call_specific_oanda or call_specific_fred is missing,
\* the function raises before any upstream call and before any persisted file
\* is read, written or removed.
C24_MissingKeyUpFront ==
    /\ [][(src \in {"oanda", "fred"} /\ ~credential /\ runs' # runs) =>
             /\ pc' = "raised"
             /\ disk' = disk]_vars
    /\ []((src \in {"oanda", "fred"} /\ ~credential) =>
             /\ pc \in {"idle", "raised"}
             /\ issued = 0
             /\ prev = Absent
             /\ ~wrote)

\* a run without the key has raised over a directory that holds a damaged file
C24_Witness ==
    /\ src \in {"oanda", "fred"}
    /\ ~credential
    /\ runs > 0
    /\ pc = "raised"
    /\ disk[Join(path, FileName(src, <<"A">>))] = BadDatetime

\* C25: within one source, the file the current symbol is read from and written
\* to is not the file of any distinct symbol the run has processed, also for the
\* symbols whose '^' and '=' call_specific_yf rewrites.
C25_OwnFile ==
    Position \in Running \ {"load"} =>
        \A k \in 1..(i - 1) :
            symbols[k] # Sym => Join(path, FileName(src, symbols[k])) # file_path

\* C26: when the collectors of two different sources run side by side, under
\* any interleaving of their steps, each run counts only its own calls in its
\* rate-limit counter, the two runs never work on the same file, and what each
\* run persists is what it persists when it runs alone: the first run over its
\* directory finds no file, a FRESH symbol with a healthy upstream gets the full
\* series and an UPDATE with nothing new leaves the file as found.
C26_ConcurrentSourcesIndependent ==
    peer.src \notin {"none", src} =>
        /\ pc \in Running => calls_this_minute = issued
        /\ pc \in {"open", "dump"} =>
               file_path # Join(peer.path, FileName(peer.src, peer.symbols[1]))
        /\ (pc \in Running \ {"load"} /\ runs = MaxRuns - 1) => prev = Absent
        /\ (pc = "next" /\ Healthy /\ is_fresh) => disk[file_path] = Json(FullSeries)
        /\ (pc = "next" /\ ~is_fresh) => disk[file_path] = prev

\* both runs are between the open and the dump of their file at the same time
C26_Witness ==
    /\ peer.src \notin {"none", src}
    /\ pc = "dump"
    /\ peer.pc = "dump"
    /\ calls_this_minute > 0
    /\ peer.calls_this_minute > 0

\* C27: every series file a collector produces is in ascending chronological
\* order (oldest record first), the files of the equities collector's
\* call_specific included.
C27_FilesAscending ==
    \A f \in DOMAIN disk :
        disk[f].kind = "json" => Ascending(disk[f].data)

\* the record of timestamp t that was received first
FirstSeen(s, t) ==
    s[CHOOSE k \in 1..Len(s) :
          s[k].datetime = t /\ \A j \in 1..(k - 1) : s[j].datetime # t]

\* C28: when the pages of a FRESH run of call_specific_binance or
\* call_specific_oanda hold several records of one timestamp, with equal or
\* different payloads, exactly one record of that timestamp is written, and it
\* is the one received first.
C28_FirstSeenWins ==
    (src \in {"binance", "oanda"} /\ pc = "next" /\ is_fresh /\ wrote) =>
        LET data == disk[file_path].data
        IN  \A t \in Datetimes(details) :
                /\ Cardinality({k \in 1..Len(data) : data[k].datetime = t}) = 1
                /\ \A k \in 1..Len(data) :
                      data[k].datetime = t => data[k] = FirstSeen(details, t)

\* two pages held the same timestamp with different payloads and the file is written
C28_Witness ==
    /\ src \in {"binance", "oanda"}
    /\ pc = "next"
    /\ is_fresh
    /\ wrote
    /\ ncalls = 2
    /\ \E j \in 1..PageCeil, k \in (PageCeil + 1)..Len(details) :
          /\ details[j].datetime = details[k].datetime
          /\ details[j].close # details[k].close

\* C29: in call_specific_fred every series processed in FRESH mode is requested
\* from the start of the default window (15 years before the run's end date),
\* whatever series were processed before it in the run and however they ended.
C29_FreshWindowOwn ==
    (src = "fred" /\ pc = "fresh") => cur = StartDefault

\* C30: in UPDATE mode, after a page in which the upstream returned the ceiling
\* number of records, at least one of them newer than the cursor, another page
\* is requested (binance, oanda, td).
C30_FullPageContinues ==
    [][(/\ src \in Paginated
        /\ pc = "update"
        /\ ncalls' = ncalls + 1
        /\ Len(lastPage') = PageCeil
        /\ \E k \in 1..Len(lastPage') : lastPage'[k].datetime > last_dt)
          => pc' = "update"]_vars

\* C31: in FRESH mode of call_specific_oanda no further page is requested after
\* a page that holds fewer records than the page-size ceiling.
C31_OandaStopsOnPartialPage ==
    [][(/\ src = "oanda"
        /\ pc = "fresh"
        /\ ncalls' = ncalls + 1
        /\ Len(details') > Len(details)
        /\ Len(details') < Len(details) + PageCeil)
          => pc' # "fresh"]_vars

\* C32: on completion of a FRESH run of call_specific_td the file holds the
\* accumulated observations in ascending order of timestamp, every timestamp
\* once, whatever order and overlap the upstream's pages have.
C32_TdFreshSortedUnique ==
    (src = "td" /\ pc = "next" /\ is_fresh /\ wrote) =>
        /\ disk[file_path].kind = "json"
        /\ Datetimes(disk[file_path].data) = Datetimes(details)
        /\ StrictlyIncreasing(disk[file_path].data)

\* C33: against an upstream that answers every request of call_specific_td
\* newest-first from its history, every series a run of call_specific_td has
\* written, FRESH or UPDATE, has strictly increasing timestamps.
C33_TdNewestFirstStrict ==
    (src = "td" /\ Healthy /\ pc = "next" /\ wrote) =>
        StrictlyIncreasing(disk[file_path].data)

\* C34: when the FRESH loop of the legacy vendor collector receives, without
\* an error, a last page that holds fewer records than the page-size ceiling,
\* the records of that page are part of the series it goes on to write.
C34_PartialPageWritten ==
    [][LET raw == FaithfulRaw(Vendor(src), TRUE, cur, now)
       IN  (/\ src = "equities"
            /\ pc = "fresh"
            /\ upstream = "faithful"
            /\ ncalls' = ncalls + 1
            /\ ~faulty'
            /\ raw.page # <<>>
            /\ Len(raw.page) < PageCeil)
              => /\ pc' = "open"
                 /\ Datetimes(raw.page) \subseteq Datetimes(towrite')]_vars

\* an acquisition of the limiter shared by call_specific_binance, _oanda, _fred
\* and _yf: the rate-limit check that precedes an adapter call
Acquisition ==
    /\ src \in SharedLimiter
    /\ pc \in {"fresh", "update"}
    /\ calls_this_minute' # calls_this_minute

\* the acquisition has slept: the call before it has grown older
Blocked == ages # <<>> /\ ages'[2] > ages[1]

\* C35: every acquisition increments the counter; the caller is blocked exactly
\* when the incremented counter has reached rate_limit and less than Window has
\* passed since the start of the window; whenever rate_limit is reached the
\* counter goes back to 0 and the window is restarted; so after every
\* acquisition 0 <= calls_this_minute < rate_limit.
C35_LimiterCounter ==
    [][Acquisition =>
          LET reached == calls_this_minute + 1 >= rate_limit
          IN  /\ Blocked <=> (reached /\ elapsed < Window)
              /\ calls_this_minute' = IF reached THEN 0 ELSE calls_this_minute + 1
              /\ elapsed' = IF reached THEN 0 ELSE elapsed
              /\ 0 <= calls_this_minute'
              /\ calls_this_minute' < rate_limit]_vars

\* C35 witness: an acquisition has found the ceiling reached within the window,
\* has slept and has started a new window.
C35_Witness ==
    /\ src \in SharedLimiter
    /\ JustIssued
    /\ AsFastAsPossible
    /\ calls_this_minute = 0
    /\ elapsed = 0
    /\ Len(ages) >= 2
    /\ ages[2] >= Window

\* C36: between two consecutive resets of the rate counter at most rate_limit
\* adapter calls are issued, and two consecutive resets lie at least Window
\* apart, for the limiter of call_specific_binance and for that of
\* call_specific_td with its reset after "run out of API credits", over all the
\* symbols of a run.
C36_ResetsApart ==
    (src \in {"binance", "td"} /\ pc \in Running) =>
        /\ sinceReset <= rate_limit
        /\ between <= rate_limit
        /\ apart >= Window

\* C36 witness: call_specific_td has reset its counter twice, rate_limit calls
\* after the first reset, and is at a later symbol of the run.
C36_Witness ==
    /\ src = "td"
    /\ pc \in Running
    /\ i > 1
    /\ issued > rate_limit
    /\ between = rate_limit
    /\ sinceReset >= 1

\* the records of the upstream's history 1..now as BinanceAPI returns them
Newest(n) == Values(Bars(Max(1, now - n + 1), now), fold)

\* C37: against an upstream that answers a request with end boundary E with the
\* up to PageCeil newest records of its history that are not later than E, a
\* FRESH run of call_specific_binance with budget num_calls writes the newest
\* min(now, PageCeil * num_calls) records of the history, each once, in order.
C37_FreshPagination ==
    (src = "binance" /\ Healthy /\ is_fresh /\ pc = "next") =>
        disk[file_path] = Json(Newest(PageCeil * num_calls))

\* C38: against an upstream that answers a request with start boundary s with
\* the up to PageCeil oldest records of its history that are not earlier than
\* s, an UPDATE run of call_specific_binance ends with the file holding the old
\* series followed by every record of the history that is newer than the old
\* cursor, each once, in order, over however many pages.
C38_UpdatePagination ==
    (src = "binance" /\ Healthy /\ ~is_fresh /\ pc = "next") =>
        disk[file_path] = Json(prev.data \o Newest(now - Timestamp(Cursor(prev), fold)))

\* C39: after an UPDATE of a symbol, for every source, the series found at the
\* start is a prefix of the series in the file: no record of it is changed,
\* removed or moved, and none is put before its first record.
C39_UpdateAppendOnly ==
    UpdateDone =>
        /\ disk[file_path].kind = "json"
        /\ IsPrefix(prev.data, disk[file_path].data)
        /\ disk[file_path].data[1] = prev.data[1]

\* C39 witness: an UPDATE has appended two records to a series of two.
C39_Witness ==
    /\ UpdateDone
    /\ wrote
    /\ Len(prev.data) >= 2
    /\ Len(Appended) >= 2

====
